---- MODULE Spec2Model ----
(***************************************************************************)
(* Expected absorption time of a bounded 2D lattice random walk            *)
(* (puzzle.ipynb): setup() flood-fills the transient region from           *)
(* Coord(0, 0); stopping_time() builds Q, inverts I - Q and returns the    *)
(* row sum of the fundamental matrix at the initial coordinate.            *)
(*                                                                         *)
(* Numbers of the solver are exact rationals <<numerator, denominator>>;   *)
(* numpy's float64 rounding is not modelled.                               *)
(***************************************************************************)
EXTENDS Integers, Sequences, FiniteSets

\* ----------------------------------------------------------------- bounds
\* The traversal of an unbounded region is followed up to this distance.
MaxCoord == 4
\* Boundary predicates are true on subsets of the cells -1..1 x -1..MaxY.
MaxY == 0
\* Longest coordinate list handed directly to stopping_time.
MaxLen == 3

\* ------------------------------------------------------------ coordinates
Coord(x, y) == [x |-> x, y |-> y]

Origin == Coord(0, 0)

Abs(n) == IF n < 0 THEN -n ELSE n

Range(s) == {s[i] : i \in 1..Len(s)}

\* 1 / 4 as a reduced fraction
Quarter == <<1, 4>>

\* adjacent_moves yielding probability 1 / 2
adjacent_moves_half(c) ==
    << <<Coord(c.x, c.y + 1), <<1, 2>> >>,
       <<Coord(c.x, c.y - 1), <<1, 2>> >>,
       <<Coord(c.x + 1, c.y), <<1, 2>> >>,
       <<Coord(c.x - 1, c.y), <<1, 2>> >> >>

\* Coord.adjacent_moves: the four moves in the order the generator yields them
adjacent_moves(c) ==
    << <<Coord(c.x, c.y + 1), Quarter>>,
       <<Coord(c.x, c.y - 1), Quarter>>,
       <<Coord(c.x + 1, c.y), Quarter>>,
       <<Coord(c.x - 1, c.y), Quarter>> >>

Adjacent(c) == {adjacent_moves(c)[k][1] : k \in 1..4}

\* ---------------------------------------------------- boundary predicates
\* The cells a caller's finite predicate may be true on.
Cells == {Coord(x, y) : x \in -1..1, y \in -1..MaxY}

\* prob_one_bound with `pos.x <= 2`
prob_one_bound_inclusive(pos) == -2 < pos.x /\ pos.x <= 2 /\ -2 < pos.y /\ pos.y < 2

prob_one_bound(pos) == -2 < pos.x /\ pos.x < 2 /\ -2 < pos.y /\ pos.y < 2

\* boundary(c) for the caller-supplied predicates of the model
RECURSIVE Holds(_, _)
Holds(b, c) ==
    CASE b.kind = "cells" -> c \in b.cells
      [] b.kind = "cells_ray" -> c \in b.cells \/ (c.y = 0 /\ c.x >= 2)
      [] b.kind = "everywhere" -> TRUE
      [] b.kind = "prob_one_bound" -> prob_one_bound(c)
      [] b.kind = "rotated" -> Holds(b.of, Coord(c.y, -c.x))

Boundaries ==
    {[kind |-> k, cells |-> s] : k \in {"cells", "cells_ray"}, s \in SUBSET Cells}
    \cup {[kind |-> "everywhere", cells |-> {}],
          [kind |-> "prob_one_bound", cells |-> {}]}

VARIABLES
    boundary,       \* setup's argument
    stack,          \* setup: work stack, top at the end
    visited,        \* setup: set of popped coordinates
    non_absorbing,  \* setup's list, then stopping_time's argument
    evals,          \* the coordinates boundary() was called on, in order
    initial,        \* stopping_time's argument, by default Coord(0, 0)
    coords_mapping, \* stopping_time: coordinate -> index
    q_matrix,       \* stopping_time: Q, indexed from 0
    nac_i,          \* stopping_time: rows of the fill loop already done
    fundamental,    \* stopping_time: inv(I - Q)
    result,         \* the value stopping_time returned
    error,          \* the exception that ended the call
    pc

setup_vars == <<boundary, stack, visited, non_absorbing, evals>>

solver_vars == <<initial, coords_mapping, q_matrix, nac_i, fundamental, result, error>>

vars == <<setup_vars, solver_vars, pc>>

None == "None"

\* ------------------------------------------------------------------ setup
InCap(c) == Abs(c.x) <= MaxCoord /\ Abs(c.y) <= MaxCoord

\* setup that also adds the pushed neighbours to `visited`
SetupStep_MarksOnPush(b, st) ==
    LET last == st.stack[Len(st.stack)]
        rest == SubSeq(st.stack, 1, Len(st.stack) - 1)
    IN  IF last \in st.visited
        THEN [st EXCEPT !.stack = rest]
        ELSE IF Holds(b, last)
             THEN [stack |-> rest \o [k \in 1..4 |-> adjacent_moves(last)[k][1]],
                   visited |-> st.visited \cup {last} \cup Adjacent(last),
                   non_absorbing |-> Append(st.non_absorbing, last),
                   evals |-> Append(st.evals, last)]
             ELSE [stack |-> rest,
                   visited |-> st.visited \cup {last},
                   non_absorbing |-> st.non_absorbing,
                   evals |-> Append(st.evals, last)]

\* setup without `if last in visited: continue`
SetupStep_NoVisitedCheck(b, st) ==
    LET last == st.stack[Len(st.stack)]
        rest == SubSeq(st.stack, 1, Len(st.stack) - 1)
    IN  IF Holds(b, last)
        THEN [stack |-> rest \o [k \in 1..4 |-> adjacent_moves(last)[k][1]],
              visited |-> st.visited \cup {last},
              non_absorbing |-> Append(st.non_absorbing, last),
              evals |-> Append(st.evals, last)]
        ELSE [stack |-> rest,
              visited |-> st.visited \cup {last},
              non_absorbing |-> st.non_absorbing,
              evals |-> Append(st.evals, last)]

\* setup with `visited.add(last)` moved into the `if boundary(last)`
SetupStep_MarksOnlyTransient(b, st) ==
    LET last == st.stack[Len(st.stack)]
        rest == SubSeq(st.stack, 1, Len(st.stack) - 1)
    IN  IF last \in st.visited
        THEN [st EXCEPT !.stack = rest]
        ELSE IF Holds(b, last)
             THEN [stack |-> rest \o [k \in 1..4 |-> adjacent_moves(last)[k][1]],
                   visited |-> st.visited \cup {last},
                   non_absorbing |-> Append(st.non_absorbing, last),
                   evals |-> Append(st.evals, last)]
             ELSE [stack |-> rest,
                   visited |-> st.visited,
                   non_absorbing |-> st.non_absorbing,
                   evals |-> Append(st.evals, last)]

\* setup with `non_absorbing.append(last)` moved out of the `if boundary(last)`
SetupStep_AppendsAbsorbing(b, st) ==
    LET last == st.stack[Len(st.stack)]
        rest == SubSeq(st.stack, 1, Len(st.stack) - 1)
    IN  IF last \in st.visited
        THEN [st EXCEPT !.stack = rest]
        ELSE [stack |-> IF Holds(b, last)
                        THEN rest \o [k \in 1..4 |-> adjacent_moves(last)[k][1]]
                        ELSE rest,
              visited |-> st.visited \cup {last},
              non_absorbing |-> Append(st.non_absorbing, last),
              evals |-> Append(st.evals, last)]

\* One iteration of `while stack:` on the locals st, under predicate b.
SetupStep(b, st) ==
    LET last == st.stack[Len(st.stack)]
        rest == SubSeq(st.stack, 1, Len(st.stack) - 1)
    IN  IF last \in st.visited
        THEN [st EXCEPT !.stack = rest]
        ELSE IF Holds(b, last)
             THEN [stack |-> rest \o [k \in 1..4 |-> adjacent_moves(last)[k][1]],
                   visited |-> st.visited \cup {last},
                   non_absorbing |-> Append(st.non_absorbing, last),
                   evals |-> Append(st.evals, last)]
             ELSE [stack |-> rest,
                   visited |-> st.visited \cup {last},
                   non_absorbing |-> st.non_absorbing,
                   evals |-> Append(st.evals, last)]

SetupLocals ==
    [stack |-> <<Origin>>, visited |-> {}, non_absorbing |-> <<>>, evals |-> <<>>]

\* The loop from locals st until the stack is empty; the value is the list.
RECURSIVE SetupRun(_, _)
SetupRun(b, st) ==
    IF st.stack = <<>> THEN st.non_absorbing ELSE SetupRun(b, SetupStep(b, st))

\* setup(boundary), for a predicate it terminates on
setup(b) == SetupRun(b, SetupLocals)

Locals ==
    [stack |-> stack, visited |-> visited, non_absorbing |-> non_absorbing,
     evals |-> evals]

\* -------------------------------------------------------------- rationals
RECURSIVE GCD(_, _)
GCD(a, b) == IF b = 0 THEN a ELSE GCD(b, a % b)

\* The fraction n / d (d # 0) reduced, with a positive denominator.
Frac(n, d) ==
    LET g == GCD(Abs(n), Abs(d))
        sgn == IF d < 0 THEN -1 ELSE 1
    IN  <<sgn * (n \div g), sgn * (d \div g)>>

Zero == <<0, 1>>

One == <<1, 1>>

RAdd(p, q) ==
    LET g == GCD(p[2], q[2])
    IN  Frac(p[1] * (q[2] \div g) + q[1] * (p[2] \div g), (p[2] \div g) * q[2])

RNeg(p) == <<-p[1], p[2]>>

RSub(p, q) == RAdd(p, RNeg(q))

RMul(p, q) ==
    LET g1 == GCD(Abs(p[1]), q[2])
        g2 == GCD(Abs(q[1]), p[2])
    IN  Frac((p[1] \div g1) * (q[1] \div g2), (p[2] \div g2) * (q[2] \div g1))

RDiv(p, q) == RMul(p, Frac(q[2], q[1]))

\* |p| > |q|
RAbsGreater(p, q) == Abs(p[1]) * q[2] > Abs(q[1]) * p[2]

\* ---------------------------------------------------------------- arrays
\* numpy arrays hold their values: an array built here is evaluated once.
Strict(f) == IF f = f THEN f ELSE f

Idx(n) == 0..(n - 1)

\* np.zeros((n, n))
zeros(n) == Strict([i \in Idx(n), j \in Idx(n) |-> Zero])

\* np.identity(n)
identity(n) == Strict([i \in Idx(n), j \in Idx(n) |-> IF i = j THEN One ELSE Zero])

\* np.subtract(a, b), elementwise
subtract(a, b, n) == Strict([i \in Idx(n), j \in Idx(n) |-> RSub(a[i, j], b[i, j])])

\* The first row among k..n-1 whose entry in column k is largest in magnitude.
PivotRow(a, n, k) ==
    CHOOSE p \in k..(n - 1) :
        /\ \A r \in k..(n - 1) : ~RAbsGreater(a[r, k], a[p, k])
        /\ \A r \in k..(p - 1) : RAbsGreater(a[p, k], a[r, k])

SwapRows(m, n, k, p) ==
    Strict([i \in Idx(n), j \in Idx(n) |->
              IF i = k THEN m[p, j] ELSE IF i = p THEN m[k, j] ELSE m[i, j]])

\* Row k divided by piv, then cleared from column k of every other row, where
\* col[i] is the entry of row i in the pivot column.
Eliminate(m, col, n, k) ==
    Strict([i \in Idx(n), j \in Idx(n) |->
              IF i = k
              THEN RDiv(m[k, j], col[k])
              ELSE RSub(m[i, j], RMul(col[i], RDiv(m[k, j], col[k])))])

\* Gauss-Jordan elimination of [a | b] with partial pivoting, from column k on.
RECURSIVE GaussJordan(_, _, _, _)
GaussJordan(a, b, n, k) ==
    IF k = n
    THEN [ok |-> TRUE, inverse |-> b]
    ELSE LET p == PivotRow(a, n, k)
         IN  IF a[p, k] = Zero
             THEN [ok |-> FALSE, inverse |-> <<>>]
             ELSE LET a1 == SwapRows(a, n, k, p)
                      b1 == SwapRows(b, n, k, p)
                      col == [i \in Idx(n) |-> a1[i, k]]
                  IN  GaussJordan(Eliminate(a1, col, n, k),
                                  Eliminate(b1, col, n, k), n, k + 1)

\* np.linalg.inv(a): the inverse, or not ok (LinAlgError: Singular matrix)
inv(a, n) == GaussJordan(a, identity(n), n, 0)

RECURSIVE SumTo(_, _, _)
SumTo(m, i, j) == IF j < 0 THEN Zero ELSE RAdd(SumTo(m, i, j - 1), m[i, j])

\* np.sum(m, axis=1)
RowSums(m, n) == [i \in Idx(n) |-> SumTo(m, i, n - 1)]

\* ---------------------------------------------------------- stopping_time
\* {coords: i for i, coords in enumerate(non_absorbing)}: a later index of a
\* repeated coordinate replaces an earlier one.
CoordsMapping(list) ==
    [c \in Range(list) |->
        (CHOOSE i \in 1..Len(list) :
            list[i] = c /\ \A j \in (i + 1)..Len(list) : list[j] # c) - 1]

\* The inner loop over nac.adjacent_moves(), from move k on.
RECURSIVE FillMoves(_, _, _, _)
FillMoves(q, mapping, nac, k) ==
    IF k > 4
    THEN q
    ELSE LET adj == adjacent_moves(nac)[k][1]
             prob == adjacent_moves(nac)[k][2]
         IN  FillMoves(IF adj \notin DOMAIN mapping
                       THEN q
                       ELSE [q EXCEPT ![mapping[nac], mapping[adj]] = prob],
                       mapping, nac, k + 1)

\* the fill loop stopping one move short: the move to (x - 1, y) is never written
FillRow_DropsLastMove(q, mapping, nac) ==
    LET f == FillMoves(q, mapping, nac, 1)
        west == adjacent_moves(nac)[4][1]
    IN  IF west \in DOMAIN mapping
        THEN [f EXCEPT ![mapping[nac], mapping[west]] = Zero]
        ELSE f

\* One iteration of `for nac in non_absorbing:`.
FillRow(q, mapping, nac) == FillMoves(q, mapping, nac, 1)

\* The whole fill loop, from list position i on.
RECURSIVE FillFrom(_, _, _, _)
FillFrom(q, mapping, list, i) ==
    IF i > Len(list)
    THEN q
    ELSE FillFrom(FillRow(q, mapping, list[i]), mapping, list, i + 1)

QMatrix(list) == FillFrom(zeros(Len(list)), CoordsMapping(list), list, 1)

\* the operands of np.subtract swapped: inv(Q - I)
Fundamental_SwapsOperands(q, n) == inv(subtract(q, identity(n), n), n)

Fundamental(q, n) == inv(subtract(identity(n), q, n), n)

\* the lookup as coords_mapping.get(initial, 0)
Lookup_Default(mapping, sums, init) ==
    LET i == IF init \in DOMAIN mapping THEN mapping[init] ELSE 0
    IN  IF i \in DOMAIN sums
        THEN [error |-> None, result |-> sums[i]]
        ELSE [error |-> "IndexError", result |-> None]

\* The last statement: the row sum at the initial coordinate, or KeyError.
Lookup(mapping, sums, init) ==
    IF init \in DOMAIN mapping
    THEN [error |-> None, result |-> sums[mapping[init]]]
    ELSE [error |-> "KeyError", result |-> None]

\* stopping_time(list, init) from call to return or exception
StoppingTime(list, init) ==
    LET n == Len(list)
        f == Fundamental(QMatrix(list), n)
    IN  IF ~f.ok
        THEN [error |-> "LinAlgError", result |-> None]
        ELSE Lookup(CoordsMapping(list), RowSums(f.inverse, n), init)

SolverUnset ==
    /\ initial = Origin
    /\ coords_mapping = <<>>
    /\ q_matrix = <<>>
    /\ nac_i = 0
    /\ fundamental = <<>>
    /\ result = None
    /\ error = None

Init ==
    /\ boundary \in Boundaries
    /\ stack = SetupLocals.stack
    /\ visited = SetupLocals.visited
    /\ non_absorbing = SetupLocals.non_absorbing
    /\ evals = SetupLocals.evals
    /\ SolverUnset
    /\ pc = "setup"

SetupLoop ==
    /\ pc = "setup"
    /\ stack # <<>>
    /\ InCap(stack[Len(stack)])
    /\ LET st == SetupStep(boundary, Locals)
       IN  /\ stack' = st.stack
           /\ visited' = st.visited
           /\ non_absorbing' = st.non_absorbing
           /\ evals' = st.evals
    /\ UNCHANGED <<boundary, solver_vars, pc>>

SetupReturn ==
    /\ pc = "setup"
    /\ stack = <<>>
    /\ pc' = "call"
    /\ UNCHANGED <<setup_vars, solver_vars>>

\* stopping_time is entered: the mapping, q_len and the zero matrix are built.
Call ==
    /\ pc = "call"
    /\ initial' \in Cells
    /\ coords_mapping' = CoordsMapping(non_absorbing)
    /\ q_matrix' = zeros(Len(non_absorbing))
    /\ nac_i' = 0
    /\ pc' = "fill"
    /\ UNCHANGED <<setup_vars, fundamental, result, error>>

Fill ==
    /\ pc = "fill"
    /\ nac_i < Len(non_absorbing)
    /\ q_matrix' = FillRow(q_matrix, coords_mapping, non_absorbing[nac_i + 1])
    /\ nac_i' = nac_i + 1
    /\ UNCHANGED <<setup_vars, initial, coords_mapping, fundamental, result, error, pc>>

Invert ==
    /\ pc = "fill"
    /\ nac_i = Len(non_absorbing)
    /\ LET f == Fundamental(q_matrix, Len(non_absorbing))
       IN  IF f.ok
           THEN /\ fundamental' = f.inverse
                /\ pc' = "sum"
                /\ UNCHANGED error
           ELSE /\ error' = "LinAlgError"
                /\ pc' = "raised"
                /\ UNCHANGED fundamental
    /\ UNCHANGED <<setup_vars, initial, coords_mapping, q_matrix, nac_i, result>>

Return ==
    /\ pc = "sum"
    /\ LET r == Lookup(coords_mapping,
                       RowSums(fundamental, Len(non_absorbing)), initial)
       IN  /\ result' = r.result
           /\ error' = r.error
           /\ pc' = IF r.error = None THEN "returned" ELSE "raised"
    /\ UNCHANGED <<setup_vars, initial, coords_mapping, q_matrix, nac_i, fundamental>>

Next == SetupLoop \/ SetupReturn \/ Call \/ Fill \/ Invert \/ Return

Spec == Init /\ [][Next]_vars

\* The notebook runs each cell to completion: a step that can be taken is taken.
FairSpec == Spec /\ WF_vars(SetupLoop) /\ WF_vars(SetupReturn)

\* ------------------------------------------- stopping_time called directly
\* The cells the lists handed directly to stopping_time are made of.
ListCells == {Coord(x, y) : x \in 0..1, y \in -1..MaxY}

\* Duplicate-free coordinate lists of at most MaxLen cells, in every order.
Lists ==
    {s \in UNION {[1..n -> ListCells] : n \in 0..MaxLen} :
        \A i, j \in 1..Len(s) : i # j => s[i] # s[j]}

InitSolve ==
    /\ non_absorbing \in Lists
    /\ boundary = [kind |-> "cells", cells |-> Range(non_absorbing)]
    /\ stack = <<>>
    /\ visited = {}
    /\ evals = <<>>
    /\ SolverUnset
    /\ pc = "call"

NextSolve == Call \/ Fill \/ Invert \/ Return

SpecSolve == InitSolve /\ [][NextSolve]_vars

\* ------------------------------------------------------------ properties
Region == Range(non_absorbing)

\* Cells reached from S by 4-neighbour steps through cells where b holds,
\* inside the box the traversal is followed in.
RECURSIVE Closure(_, _)
Closure(b, S) ==
    LET T == S \cup {n \in UNION {Adjacent(c) : c \in S} : InCap(n) /\ Holds(b, n)}
    IN  IF T = S THEN S ELSE Closure(b, T)

\* The origin's 4-connected component of b's true-set (brute-force flood fill).
Component(b) == IF Holds(b, Origin) THEN Closure(b, {Origin}) ELSE {}

\* The predicates of Boundaries are bounded apart from the ray and the whole
\* plane: a component that reaches the edge of the box is an infinite one.
ComponentFinite(b) ==
    \A c \in Component(b) : Abs(c.x) < MaxCoord /\ Abs(c.y) < MaxCoord

SetupDone == pc # "setup"

FillDone == pc \in {"sum", "returned", "raised"} \/ (pc = "fill" /\ nac_i = Len(non_absorbing))

CallEnded == pc \in {"returned", "raised"}

\* C1: when setup returns, the list holds exactly the coordinates of the
\* origin's 4-connected component of the predicate's true-set: none missing,
\* none with the predicate false, none disconnected from the origin.
C1_SetupReturnsComponent == SetupDone => Region = Component(boundary)

\* setup returned a non-empty region although the predicate also holds on a
\* cell that is not connected to the origin
C1_Witness ==
    /\ pc = "call"
    /\ non_absorbing # <<>>
    /\ \E c \in Cells : Holds(boundary, c) /\ c \notin Region
    /\ \E c \in Adjacent(Origin) : c \in Region
\* The first-step equations at index i of vector t over list:
\* t(c) = 1 + (1/4) * (sum of t(n) over the 4-neighbours n of c in the list).
RECURSIVE NeighbourSum(_, _, _, _)
NeighbourSum(t, list, i, j) ==
    IF j = 0
    THEN Zero
    ELSE RAdd(NeighbourSum(t, list, i, j - 1),
              IF list[j] \in Adjacent(list[i]) THEN t[j - 1] ELSE Zero)

FirstStep(t, list) ==
    \A i \in 1..Len(list) :
        t[i - 1] = RAdd(One, RMul(Quarter, NeighbourSum(t, list, i, Len(list))))

\* The cells of S in a fixed order: by x, then by y.
RECURSIVE Sorted(_)
Sorted(S) ==
    IF S = {}
    THEN <<>>
    ELSE LET m == CHOOSE c \in S :
                    \A d \in S : c.x < d.x \/ (c.x = d.x /\ c.y <= d.y)
         IN  <<m>> \o Sorted(S \ {m})

\* C2: for a duplicate-free list and a start in it, the returned value is
\* t(start) for the solution t of the first-step equations
\* t(c) = 1 + (1/4) * sum of t(n) over the neighbours n of c in the list,
\* and it is the value every other order of the same coordinates gives.
C2_FirstStepSolution ==
    pc = "returned" =>
        LET t == RowSums(fundamental, Len(non_absorbing))
        IN  /\ FirstStep(t, non_absorbing)
            /\ result = t[coords_mapping[initial]]
            /\ result = StoppingTime(Sorted(Region), initial).result

\* a value was returned for a list of at least three coordinates that is not
\* in the fixed order, with the start a cell that has a neighbour in the list
C2_Witness ==
    /\ pc = "returned"
    /\ Len(non_absorbing) >= 3
    /\ non_absorbing # Sorted(Region)
    /\ Adjacent(initial) \cap Region # {}

\* C3: setup terminates exactly when the origin's component of the true-set
\* is finite: then the stack empties and the list is returned (also for the
\* empty component); for an infinite component the stack never empties.
C3_TerminatesIffFinite ==
    /\ ComponentFinite(boundary) ~> (SetupDone /\ stack = <<>>)
    /\ [](~ComponentFinite(boundary) => (pc = "setup" /\ stack # <<>>))

\* setup returned a non-empty list for a predicate whose true-set is infinite
\* (the ray) but whose component of the origin is finite
C3_Witness ==
    /\ pc = "call"
    /\ boundary.kind = "cells_ray"
    /\ non_absorbing # <<>>
    /\ ComponentFinite(boundary)

\* C4: a call whose start is not in the list ends in an exception (KeyError)
\* and never returns a number, also for the empty list and the default start.
C4_StartNotInListFails ==
    initial \notin Region =>
        /\ result = None
        /\ pc # "returned"
        /\ CallEnded => error = "KeyError"

\* the call ended in KeyError for a non-empty list without the start
C4_Witness ==
    /\ pc = "raised"
    /\ error = "KeyError"
    /\ non_absorbing # <<>>
    /\ initial \notin Region

\* C5: no coordinate is twice in the list, during the traversal and at
\* return, and the solver's mapping is a bijection from the region onto
\* 0..n-1, n the number of region coordinates and the dimension of Q.
C5_IndexBijection ==
    /\ \A i, j \in 1..Len(non_absorbing) :
          non_absorbing[i] = non_absorbing[j] => i = j
    /\ pc \notin {"setup", "call"} =>
          LET n == Len(non_absorbing)
          IN  /\ DOMAIN coords_mapping = Region
              /\ {coords_mapping[c] : c \in Region} = Idx(n)
              /\ \A c, d \in Region : coords_mapping[c] = coords_mapping[d] => c = d
              /\ \A i \in 1..n : coords_mapping[non_absorbing[i]] = i - 1
              /\ n = Cardinality(Region)
              /\ DOMAIN q_matrix = Idx(n) \X Idx(n)

\* the mapping was built for a list of at least three coordinates that the
\* traversal returned
C5_Witness ==
    /\ pc = "fill"
    /\ Len(non_absorbing) >= 3
    /\ Cardinality(DOMAIN coords_mapping) >= 3
\* C6: after the fill loop Q[i][j] is 1/4 exactly when coordinate j is a
\* 4-neighbour of coordinate i and 0 otherwise, the diagonal is 0, and row i
\* sums to 1 - (1/4) * (number of neighbours of coordinate i outside the region).
C6_QEntries ==
    FillDone =>
        \A i \in 1..Len(non_absorbing) :
            /\ \A j \in 1..Len(non_absorbing) :
                  q_matrix[i - 1, j - 1] =
                      IF non_absorbing[j] \in Adjacent(non_absorbing[i])
                      THEN Quarter
                      ELSE Zero
            /\ q_matrix[i - 1, i - 1] = Zero
            /\ SumTo(q_matrix, i - 1, Len(non_absorbing) - 1) =
                  RSub(One, RMul(Quarter,
                      <<Cardinality(Adjacent(non_absorbing[i]) \ Region), 1>>))

\* the fill loop ended for a region with an inner coordinate (row sum 1) and
\* a coordinate with a neighbour outside the region (row sum below 1)
C6_Witness ==
    /\ pc = "fill"
    /\ nac_i = Len(non_absorbing)
    /\ \E c \in Region : Adjacent(c) \subseteq Region
    /\ \E c \in Region : ~(Adjacent(c) \subseteq Region)

\* C7: for -2 < x < 2 and -2 < y < 2 setup returns exactly the 9 cells of
\* the 3x3 grid around the origin, and the call with start (0,0) returns 9/2.
C7_ProblemOne ==
    boundary.kind = "prob_one_bound" =>
        /\ SetupDone =>
              /\ Region = {Coord(x, y) : x \in -1..1, y \in -1..1}
              /\ Len(non_absorbing) = 9
        /\ (CallEnded /\ initial = Origin) =>
              /\ pc = "returned"
              /\ result = <<9, 2>>

\* problem one's call with the default start returned
C7_Witness ==
    /\ boundary.kind = "prob_one_bound"
    /\ pc = "returned"
    /\ initial = Origin

RECURSIVE DotTo(_, _, _, _, _)
DotTo(a, b, i, j, k) ==
    IF k < 0 THEN Zero ELSE RAdd(DotTo(a, b, i, j, k - 1), RMul(a[i, k], b[k, j]))

\* The cells reached from S by 4-neighbour steps inside R.
RECURSIVE ReachInside(_, _)
ReachInside(S, R) ==
    LET T == S \cup (UNION {Adjacent(c) : c \in S} \cap R)
    IN  IF T = S THEN S ELSE ReachInside(T, R)

\* C8: for every region setup returns the inversion succeeds, its value is
\* the inverse of I - Q, and from every region coordinate a path inside the
\* region leads to a coordinate with a neighbour outside the region.
C8_Invertible ==
    pc \in {"sum", "returned", "raised"} =>
        LET n == Len(non_absorbing)
            a == subtract(identity(n), q_matrix, n)
        IN  /\ error # "LinAlgError"
            /\ \A i, j \in Idx(n) :
                  DotTo(a, fundamental, i, j, n - 1) = identity(n)[i, j]
            /\ \A c \in Region :
                  \E d \in ReachInside({c}, Region) : ~(Adjacent(d) \subseteq Region)

\* the inversion was done for a region with a coordinate all of whose
\* neighbours are in the region
C8_Witness ==
    /\ pc = "sum"
    /\ \E c \in Region : Adjacent(c) \subseteq Region

\* P'(x, y) = P(y, -x)
Rotated(b) == [kind |-> "rotated", of |-> b]

\* The image of c under the rotation that takes P's true-set to P''s.
RotImage(c) == Coord(-c.y, c.x)

\* C9: with the start at the origin, the predicate rotated by 90 degrees
\* gives the rotated image of the region and the same outcome of the call
\* (the same expected time), whatever order the coordinates are indexed in.
C9_RotationInvariant ==
    (CallEnded /\ initial = Origin) =>
        LET r == setup(Rotated(boundary))
            o == StoppingTime(r, Origin)
        IN  /\ Range(r) = {RotImage(c) : c \in Region}
            /\ o.error = error
            /\ o.result = result

\* a time was returned for a region that differs from its rotated image and
\* that the rotated traversal lists in another order
C9_Witness ==
    /\ pc = "returned"
    /\ initial = Origin
    /\ {RotImage(c) : c \in Region} # Region
    /\ setup(Rotated(boundary)) #
          [i \in 1..Len(non_absorbing) |-> RotImage(non_absorbing[i])]

\* C10: the predicate is evaluated at most once per coordinate, only on the
\* origin or on a neighbour of a recorded transient coordinate; only such
\* coordinates are ever on the stack (a false coordinate is not expanded);
\* at return the evaluated coordinates are the region and the cells adjacent
\* to it, or the origin alone when the region is empty.
C10_Evaluations ==
    LET near(c) == c = Origin \/ \E d \in Region : c \in Adjacent(d)
    IN  /\ \A i, j \in 1..Len(evals) : evals[i] = evals[j] => i = j
        /\ \A i \in 1..Len(evals) : near(evals[i])
        /\ \A i \in 1..Len(stack) : near(stack[i])
        /\ \A c \in Region : Holds(boundary, c)
        /\ SetupDone =>
              Range(evals) =
                  IF Region = {}
                  THEN {Origin}
                  ELSE Region \cup UNION {Adjacent(c) : c \in Region}

\* setup returned a region of at least two coordinates after discarding
\* popped coordinates that were already visited
C10_Witness ==
    /\ pc = "call"
    /\ Len(non_absorbing) >= 2
    /\ Len(evals) < 1 + 4 * Len(non_absorbing)
====
